---- MODULE Spec2Model ----
(***************************************************************************)
(* Model of cliplin's ChromaDB context store                               *)
(* (src/src/cliplin/utils/chromadb.py): the collection routing table, the  *)
(* path classifier (get_collection_for_file, get_file_type) and the        *)
(* ChromaDBContextStore facade over a persistent engine client.            *)
(*                                                                         *)
(* The engine (chromadb) is an external library.  Its state is modelled as *)
(* a map from collection names to collections (metadata + documents), and  *)
(* its calls by their documented behaviour; every facade method is one     *)
(* atomic action (the store is single-threaded and blocking).              *)
(***************************************************************************)
EXTENDS Integers, Sequences, FiniteSets, TLC

VARIABLES
    classified,   \* last classifier call: its input path and both results
    client,       \* self._client: "None" or "open"
    opens,        \* engine clients constructed by this store instance
    dirExists,    \* <root>/.cliplin/data/context exists on disk
    fileExists,   \* <root>/.cliplin/data/context/chroma.sqlite3 exists on disk
    colls,        \* the engine's persistent state: name -> collection or NoColl
    last,         \* name of the facade operation that ran last
    args,         \* the arguments it was called with
    ret,          \* its return value (NoRet when it raised)
    raised,       \* the exception it ended with ("none" when it returned)
    calls         \* the mutating engine calls it issued, in order; a
                  \* delete_collection entry tells if a collection was deleted

vars == <<classified, client, opens, dirExists, fileExists, colls, last, args, ret, raised, calls>>

storeVars == <<client, opens, dirExists, fileExists, colls, last, args, ret, raised, calls>>

(***************************************************************************)
(* Collection routing table                                                *)
(***************************************************************************)

None == "None"

\* COLLECTION_MAPPINGS, in the dict's iteration (insertion) order.
COLLECTION_MAPPINGS ==
    << [name |-> "business-and-architecture",
        directories |-> <<"docs/adrs", "docs/business">>,
        file_pattern |-> ".md", type |-> "adr"],
       [name |-> "features",
        directories |-> <<"docs/features">>,
        file_pattern |-> ".feature", type |-> "feature"],
       [name |-> "tech-specs",
        directories |-> <<"docs/ts4">>,
        file_pattern |-> ".ts4", type |-> "ts4"],
       [name |-> "uisi",
        directories |-> <<"docs/ui-intent">>,
        file_pattern |-> ".yaml", type |-> "ui-intent"] >>

\* REQUIRED_COLLECTIONS = list(COLLECTION_MAPPINGS.keys())
REQUIRED_COLLECTIONS ==
    [i \in 1..Len(COLLECTION_MAPPINGS) |-> COLLECTION_MAPPINGS[i].name]

Range(s) == {s[i] : i \in 1..Len(s)}

(***************************************************************************)
(* Path classifier.  A file path under the project root is the sequence of *)
(* its components relative to the root; strings are TLA+ strings, on which *)
(* Len, SubSeq and \o act character by character.                          *)
(***************************************************************************)

\* str(relative_path): the components joined by "/".
RECURSIVE PathStr(_)
PathStr(p) ==
    IF Len(p) = 0 THEN "."
    ELSE IF Len(p) = 1 THEN p[1]
    ELSE PathStr(SubSeq(p, 1, Len(p) - 1)) \o "/" \o p[Len(p)]

\* str.startswith
StartsWith(s, prefix) ==
    Len(s) >= Len(prefix) /\ SubSeq(s, 1, Len(prefix)) = prefix

\* str.endswith
EndsWith(s, suffix) ==
    Len(s) >= Len(suffix) /\ SubSeq(s, Len(s) - Len(suffix) + 1, Len(s)) = suffix

\* file_path.match("*<suffix>"): a relative pattern of one component is matched
\* against the last component of the path; "*" matches any run of characters.
PathMatch(p, suffix) ==
    Len(p) > 0 /\ EndsWith(p[Len(p)], suffix)

\* The (mapping, directory) pairs in the order the two nested loops visit them.
MappingMatches(p, m) ==
    \E d \in 1..Len(m.directories) :
        /\ StartsWith(PathStr(p), m.directories[d])
        /\ PathMatch(p, m.file_pattern)

FirstMatch(p) ==
    LET hits == {i \in 1..Len(COLLECTION_MAPPINGS) : MappingMatches(p, COLLECTION_MAPPINGS[i])}
    IN  IF hits = {} THEN 0 ELSE CHOOSE i \in hits : \A j \in hits : i <= j

get_collection_for_file(p) ==
    IF FirstMatch(p) = 0 THEN None ELSE COLLECTION_MAPPINGS[FirstMatch(p)].name

get_file_type(p) ==
    IF FirstMatch(p) = 0 THEN None ELSE COLLECTION_MAPPINGS[FirstMatch(p)].type

\* Inputs of the classifier: up to MaxDepth directories, then a file name.
MaxDepth == 2

DirNames == {"docs", "adrs", "adrs-old", "business", "features", "ts4",
             "ui-intent", "src"}

FileNames == {"0001-x.md", "login.feature", "api.ts4", "form.yaml",
              "README.md", "adrs.md", "notes.txt"}

RECURSIVE DirSeqs(_)
DirSeqs(n) ==
    IF n = 0 THEN {<<>>}
    ELSE DirSeqs(n - 1) \cup
         {Append(s, d) : s \in {t \in DirSeqs(n - 1) : Len(t) = n - 1}, d \in DirNames}

FilePaths == {Append(s, f) : s \in DirSeqs(MaxDepth), f \in FileNames}

Classify(p) ==
    /\ classified' = [path |-> p,
                      collection |-> get_collection_for_file(p),
                      type |-> get_file_type(p)]
    /\ UNCHANGED storeVars

(***************************************************************************)
(* Engine state.  colls maps the name of every collection that exists to   *)
(* its metadata and its documents (a map from the ids held to text and     *)
(* metadata).  The engine stores an empty metadata mapping as no metadata. *)
(***************************************************************************)

NoRet == "NoRet"
EmptyMeta == "{}"

RequiredNames == Range(REQUIRED_COLLECTIONS)

\* Every collection name used, in the order the engine lists collections.
NameOrder == REQUIRED_COLLECTIONS \o <<"scratch">>

\* Document ids, in the order a collection returns them.
DocOrder == <<"d1", "d2">>
DocIds == Range(DocOrder)
DocTexts == {"t1"}
DocMetaValues == {"m1"}
CollMetaValues == {"cm1"}

\* What the engine keeps for a metadata argument: {} and None are both "no metadata".
Stored(meta) == IF meta = EmptyMeta THEN None ELSE meta

NoDocs == [d \in {} |-> None]
NewColl(meta) == [metadata |-> Stored(meta), docs |-> NoDocs]

HasColl(c, n) == n \in DOMAIN c

\* The engine state with collection n set to col / removed.
WithColl(c, n, col) == [m \in DOMAIN c \cup {n} |-> IF m = n THEN col ELSE c[m]]
WithoutColl(c, n) == [m \in DOMAIN c \ {n} |-> c[m]]

\* client.list_collections(): the names of the collections that exist.
ListNames(c) == SelectSeq(NameOrder, LAMBDA n : HasColl(c, n))

\* col.get()["ids"]: the ids held.
IdsOf(col) == SelectSeq(DocOrder, LAMBDA d : d \in DOMAIN col.docs)

\* The result bundle of col.get / col.peek for the ids in idseq, all of them held.
Bundle(col, idseq) ==
    [ids |-> idseq,
     documents |-> [i \in 1..Len(idseq) |-> col.docs[idseq[i]].text],
     metadatas |-> [i \in 1..Len(idseq) |-> col.docs[idseq[i]].meta]]

\* The documents of a collection after col.add(ids, documents, metadatas) of a
\* batch the engine accepts.
Added(docs, ids, documents, metadatas) ==
    [d \in DOMAIN docs \cup Range(ids) |->
        IF d \in Range(ids)
        THEN LET i == CHOOSE j \in 1..Len(ids) : ids[j] = d
             IN  [text |-> documents[i], meta |-> Stored(metadatas[i])]
        ELSE docs[d]]

\* The engine's verdict on col.add: "none" when it accepts the batch.
AddError(docs, ids, documents, metadatas) ==
    IF Len(ids) = 0 THEN "ValueError"
    ELSE IF Len(documents) # Len(ids) \/ Len(metadatas) # Len(ids)
         THEN "DimensionMismatchError"
    ELSE IF Cardinality(Range(ids)) # Len(ids) \/ Range(ids) \cap DOMAIN docs # {}
         THEN "DuplicateDocumentError"
    ELSE "none"

\* The documents of a collection after col.delete(ids): ids not held are ignored.
Deleted(docs, ids) == [d \in DOMAIN docs \ Range(ids) |-> docs[d]]

\* [x] * n
Repeat(x, n) == [i \in 1..n |-> x]

(***************************************************************************)
(* Inputs of the facade operations.                                        *)
(***************************************************************************)

\* Longest id / document / metadata list passed to an operation.
MaxLen == 2

\* Names passed to the operations: a required collection and another one.
InputNames == {"features", "scratch"}

SeqsUpTo(S, n) == UNION {[1..k -> S] : k \in 0..n}

\* An optional list or number argument: Absent for Python's None, Some(x) for x.
Absent == <<>>
Some(x) == <<x>>
Optional(S) == {Absent} \cup {Some(x) : x \in S}

IdLists == SeqsUpTo(DocIds, MaxLen) \ {<<>>}
\* Lists of distinct ids, for the operations that write documents.
DistinctIdLists == {<<"d1">>, <<"d2">>, <<"d1", "d2">>}
SingleIdLists == {<<d>> : d \in DocIds}
MetaLists == Optional(SeqsUpTo({EmptyMeta} \cup DocMetaValues, MaxLen))
CollMetaInputs == {None, EmptyMeta} \cup CollMetaValues
Limits == Optional({1})

\* The one document the life-cycle specification stores.
OneId == "d1"
OneText == "t1"

\* names[offset:] and names[:limit] for non-negative bounds
Drop(s, k) == SubSeq(s, k + 1, Len(s))
Take(s, k) == SubSeq(s, 1, IF k < Len(s) THEN k ELSE Len(s))

(***************************************************************************)
(* Client construction                                                     *)
(***************************************************************************)

\* The ways get_chromadb_client can end: mkdir(parents, exist_ok) raising (only
\* when the directory is not there yet), PersistentClient raising, or success.
ConstructOutcomes ==
    {"ok", "client_error"} \cup (IF dirExists THEN {} ELSE {"mkdir_error"})

\* get_chromadb_client(project_root) ending with outcome o.
get_chromadb_client(o) ==
    /\ o \in ConstructOutcomes
    /\ dirExists' = (dirExists \/ o # "mkdir_error")
    /\ fileExists' = (fileExists \/ o = "ok")
    /\ opens' = IF o = "ok" THEN opens + 1 ELSE opens
    /\ client' = IF o = "ok" THEN "open" ELSE client

\* A store that constructs a client on every call instead of caching the handle.
ClientOrRaiseAlways(o) == get_chromadb_client(o)

\* self._client_or_raise(); o = "cached" when the handle is reused.
ClientOrRaise(o) ==
    IF client = None
    THEN get_chromadb_client(o)
    ELSE o = "cached" /\ UNCHANGED <<client, opens, dirExists, fileExists>>

Failed(o) == o \in {"mkdir_error", "client_error"}

\* A failed construction that is swallowed: the operation returns None.
UnavailableSwallowed ==
    /\ raised' = "none"
    /\ ret' = None
    /\ calls' = <<>>
    /\ colls' = colls

\* The exception of a failed construction leaves the operation.
Unavailable ==
    /\ raised' = "EngineUnavailableError"
    /\ ret' = NoRet
    /\ calls' = <<>>
    /\ colls' = colls

Return(v) == ret' = v /\ raised' = "none"
Raise(e) == ret' = NoRet /\ raised' = e
ReadOnly == calls' = <<>> /\ colls' = colls
NotFound == Raise("CollectionNotFoundError") /\ ReadOnly

Outcomes == {"ok", "mkdir_error", "client_error", "cached"}

(***************************************************************************)
(* The facade: one action per method of ChromaDBContextStore.              *)
(***************************************************************************)

\* get_context_store(project_root): a new store instance on the same root.
GetContextStore ==
    /\ last' = "get_context_store"
    /\ args' = <<>>
    /\ client' = None
    /\ opens' = 0
    /\ Return(NoRet)
    /\ calls' = <<>>
    /\ UNCHANGED <<classified, dirExists, fileExists, colls>>

IsInitialized ==
    /\ last' = "is_initialized"
    /\ args' = <<>>
    /\ Return(fileExists)
    /\ calls' = <<>>
    /\ UNCHANGED <<classified, client, opens, dirExists, fileExists, colls>>

\* A verification that reports every required collection, present or not.
verify_collections_all(c) == REQUIRED_COLLECTIONS

\* verify_collections(client)
verify_collections(c) ==
    SelectSeq(REQUIRED_COLLECTIONS, LAMBDA n : n \notin Range(ListNames(c)))

\* The engine state after get_or_create_collection(name=n) for each n of names.
RECURSIVE CreatedAll(_, _)
CreatedAll(c, names) ==
    IF Len(names) = 0 THEN c
    ELSE CreatedAll(IF HasColl(c, names[1]) THEN c ELSE WithColl(c, names[1], NewColl(None)),
                    Tail(names))

EnsureCollections ==
    /\ last' = "ensure_collections"
    /\ args' = <<>>
    /\ UNCHANGED classified
    /\ \E o \in Outcomes :
        /\ ClientOrRaise(o)
        /\ IF Failed(o) THEN Unavailable
           ELSE LET missing == verify_collections(colls)
                IN  /\ colls' = CreatedAll(colls, missing)
                    /\ calls' = [i \in 1..Len(missing) |->
                                    <<"get_or_create_collection", missing[i]>>]
                    /\ Return(missing)

ListCollections(limit, offset) ==
    /\ last' = "list_collections"
    /\ args' = <<limit, offset>>
    /\ UNCHANGED classified
    /\ \E o \in Outcomes :
        /\ ClientOrRaise(o)
        /\ IF Failed(o) THEN Unavailable
           ELSE LET names == ListNames(colls)
                    dropped == IF offset # Absent THEN Drop(names, offset[1]) ELSE names
                    taken == IF limit # Absent THEN Take(dropped, limit[1]) ELSE dropped
                IN  Return(taken) /\ ReadOnly

\* A create that replaces a collection that exists (delete, then create).
CreateCollectionReplacing(name, metadata) ==
    /\ last' = "create_collection"
    /\ args' = <<name, metadata>>
    /\ UNCHANGED classified
    /\ \E o \in Outcomes :
        /\ ClientOrRaise(o)
        /\ IF Failed(o) THEN Unavailable
           ELSE /\ calls' = << <<"delete_collection", name,
                                 IF HasColl(colls, name) THEN "deleted" ELSE "absent">>,
                               <<"create_collection", name>> >>
                /\ colls' = WithColl(colls, name, NewColl(metadata))
                /\ Return(None)

\* get_or_create_collection(name, metadata or None).  Engine releases differ on
\* whether metadata given for a collection that exists replaces its metadata.
CreateCollection(name, metadata) ==
    /\ last' = "create_collection"
    /\ args' = <<name, metadata>>
    /\ UNCHANGED classified
    /\ \E o \in Outcomes :
        /\ ClientOrRaise(o)
        /\ IF Failed(o) THEN Unavailable
           ELSE LET meta == IF metadata = EmptyMeta THEN None ELSE metadata
                IN  /\ calls' = << <<"get_or_create_collection", name>> >>
                    /\ Return(None)
                    /\ IF ~HasColl(colls, name)
                       THEN colls' = WithColl(colls, name, NewColl(meta))
                       ELSE \/ colls' = colls
                            \/ /\ meta # None
                               /\ colls' = [colls EXCEPT ![name].metadata = meta]

GetCollectionInfo(name) ==
    /\ last' = "get_collection_info"
    /\ args' = <<name>>
    /\ UNCHANGED classified
    /\ \E o \in Outcomes :
        /\ ClientOrRaise(o)
        /\ IF Failed(o) THEN Unavailable
           ELSE IF ~HasColl(colls, name) THEN NotFound
           ELSE /\ Return([name |-> name,
                           metadata |-> IF colls[name].metadata = None THEN EmptyMeta
                                        ELSE colls[name].metadata])
                /\ ReadOnly

GetCollectionCount(name) ==
    /\ last' = "get_collection_count"
    /\ args' = <<name>>
    /\ UNCHANGED classified
    /\ \E o \in Outcomes :
        /\ ClientOrRaise(o)
        /\ IF Failed(o) THEN Unavailable
           ELSE IF ~HasColl(colls, name) THEN NotFound
           ELSE Return(Cardinality(DOMAIN colls[name].docs)) /\ ReadOnly

Peek(name, limit) ==
    /\ last' = "peek"
    /\ args' = <<name, limit>>
    /\ UNCHANGED classified
    /\ \E o \in Outcomes :
        /\ ClientOrRaise(o)
        /\ IF Failed(o) THEN Unavailable
           ELSE IF ~HasColl(colls, name) THEN NotFound
           ELSE Return(Bundle(colls[name], Take(IdsOf(colls[name]), limit))) /\ ReadOnly

\* An existence test whose handler does not cover the collection lookup.
DocumentExistsUncaught(name, document_id) ==
    /\ last' = "document_exists"
    /\ args' = <<name, document_id>>
    /\ UNCHANGED classified
    /\ \E o \in Outcomes :
        /\ ClientOrRaise(o)
        /\ ReadOnly
        /\ IF Failed(o) THEN Return(FALSE)
           ELSE IF ~HasColl(colls, name) THEN Raise("CollectionNotFoundError")
           ELSE Return(document_id \in DOMAIN colls[name].docs)

\* The whole body is inside try / except Exception: return False.
DocumentExists(name, document_id) ==
    /\ last' = "document_exists"
    /\ args' = <<name, document_id>>
    /\ UNCHANGED classified
    /\ \E o \in Outcomes :
        /\ ClientOrRaise(o)
        /\ ReadOnly
        /\ IF Failed(o) THEN Return(FALSE)
           ELSE IF ~HasColl(colls, name) THEN Return(FALSE)
           ELSE Return(Len(SelectSeq(IdsOf(colls[name]), LAMBDA d : d = document_id)) > 0)

\* A normalisation without the length test: only `metadatas or [{}] * len(ids)`.
MetadatasOrDefault(ids, metadatas) ==
    IF metadatas = Absent \/ metadatas = Some(<<>>)
    THEN Repeat(EmptyMeta, Len(ids)) ELSE metadatas[1]

\* metadatas = metadatas or [{}] * len(ids); a list of another length is replaced too.
NormalizedMetadatas(ids, metadatas) ==
    LET given == IF metadatas = Absent \/ metadatas = Some(<<>>)
                 THEN Repeat(EmptyMeta, Len(ids)) ELSE metadatas[1]
    IN  IF Len(given) # Len(ids) THEN Repeat(EmptyMeta, Len(ids)) ELSE given

AddDocuments(name, ids, documents, metadatas) ==
    /\ last' = "add_documents"
    /\ args' = <<name, ids, documents, metadatas>>
    /\ UNCHANGED classified
    /\ \E o \in Outcomes :
        /\ ClientOrRaise(o)
        /\ IF Failed(o) THEN Unavailable
           ELSE IF ~HasColl(colls, name) THEN NotFound
           ELSE LET metas == NormalizedMetadatas(ids, metadatas)
                    err == AddError(colls[name].docs, ids, documents, metas)
                IN  /\ calls' = << <<"add", name, ids, documents, metas>> >>
                    /\ IF err # "none" THEN Raise(err) /\ colls' = colls
                       ELSE /\ colls' = [colls EXCEPT ![name].docs =
                                            Added(@, ids, documents, metas)]
                            /\ Return(Len(ids))

\* The documents after col.update(ids, documents?, metadatas?): only the fields
\* supplied overwrite.
Updated(docs, ids, documents, metadatas) ==
    [d \in DOMAIN docs |->
        IF d \in Range(ids)
        THEN LET i == CHOOSE j \in 1..Len(ids) : ids[j] = d
             IN  [text |-> IF documents = Absent THEN docs[d].text ELSE documents[1][i],
                  meta |-> IF metadatas = Absent THEN docs[d].meta
                           ELSE Stored(metadatas[1][i])]
        ELSE docs[d]]

UpdateError(docs, ids, documents, metadatas) ==
    IF \/ (documents # Absent /\ Len(documents[1]) # Len(ids))
       \/ (metadatas # Absent /\ Len(metadatas[1]) # Len(ids))
    THEN "DimensionMismatchError"
    ELSE IF Cardinality(Range(ids)) # Len(ids) THEN "DuplicateDocumentError"
    ELSE IF ~(Range(ids) \subseteq DOMAIN docs) THEN "DocumentNotFoundError"
    ELSE "none"

UpdateDocuments(name, ids, documents, metadatas) ==
    /\ last' = "update_documents"
    /\ args' = <<name, ids, documents, metadatas>>
    /\ UNCHANGED classified
    /\ \E o \in Outcomes :
        /\ ClientOrRaise(o)
        /\ IF Failed(o) THEN Unavailable
           ELSE IF ~HasColl(colls, name) THEN NotFound
           ELSE LET err == UpdateError(colls[name].docs, ids, documents, metadatas)
                IN  /\ calls' = << <<"update", name, ids, documents, metadatas>> >>
                    /\ IF err # "none" THEN Raise(err) /\ colls' = colls
                       ELSE /\ colls' = [colls EXCEPT ![name].docs =
                                            Updated(@, ids, documents, metadatas)]
                            /\ Return(Len(ids))

\* col.query: the engine ranks by similarity, which this layer does not decide;
\* any n_results of the documents held may come back.
QueryDocuments(name, n_results) ==
    /\ last' = "query_documents"
    /\ args' = <<name, n_results>>
    /\ UNCHANGED classified
    /\ \E o \in Outcomes :
        /\ ClientOrRaise(o)
        /\ IF Failed(o) THEN Unavailable
           ELSE IF ~HasColl(colls, name) THEN NotFound
           ELSE \E found \in SUBSET DOMAIN colls[name].docs :
                    /\ Cardinality(found) =
                           (IF n_results < Cardinality(DOMAIN colls[name].docs)
                            THEN n_results ELSE Cardinality(DOMAIN colls[name].docs))
                    /\ Return(found)
                    /\ ReadOnly

GetDocuments(name, ids) ==
    /\ last' = "get_documents"
    /\ args' = <<name, ids>>
    /\ UNCHANGED classified
    /\ \E o \in Outcomes :
        /\ ClientOrRaise(o)
        /\ IF Failed(o) THEN Unavailable
           ELSE IF ~HasColl(colls, name) THEN NotFound
           ELSE LET held == IdsOf(colls[name])
                    asked == IF ids = Absent THEN held
                             ELSE SelectSeq(held, LAMBDA d : d \in Range(ids[1]))
                IN  Return(Bundle(colls[name], asked)) /\ ReadOnly

DeleteDocuments(name, ids) ==
    /\ last' = "delete_documents"
    /\ args' = <<name, ids>>
    /\ UNCHANGED classified
    /\ \E o \in Outcomes :
        /\ ClientOrRaise(o)
        /\ IF Failed(o) THEN Unavailable
           ELSE IF ~HasColl(colls, name) THEN NotFound
           ELSE /\ calls' = << <<"delete", name, ids>> >>
                /\ colls' = [colls EXCEPT ![name].docs = Deleted(@, ids)]
                /\ Return(Len(ids))

\* A modify that renames first and changes the metadata afterwards.
ModifyCollectionRenameFirst(name, new_name, new_metadata) ==
    /\ last' = "modify_collection"
    /\ args' = <<name, new_name, new_metadata>>
    /\ UNCHANGED classified
    /\ \E o \in Outcomes :
        /\ ClientOrRaise(o)
        /\ IF Failed(o) THEN Unavailable
           ELSE IF ~HasColl(colls, name) THEN NotFound
           ELSE LET metaCall == IF new_metadata # None
                                THEN << <<"modify_metadata", name, new_metadata>> >>
                                ELSE <<>>
                    nameCall == IF new_name # None
                                THEN << <<"modify_name", name, new_name>> >>
                                ELSE <<>>
                    col == IF new_metadata # None
                           THEN [colls[name] EXCEPT !.metadata = Stored(new_metadata)]
                           ELSE colls[name]
                IN  IF new_name # None /\ new_name # name /\ HasColl(colls, new_name)
                    THEN /\ calls' = nameCall
                         /\ colls' = colls
                         /\ Raise("UniqueConstraintError")
                    ELSE /\ calls' = nameCall \o metaCall
                         /\ colls' = WithColl(WithoutColl(colls, name),
                                              IF new_name # None THEN new_name ELSE name, col)
                         /\ Return(None)

\* col is the handle obtained for collection_name; both changes go through it.
\* The engine refuses a name another collection holds.
ModifyCollection(name, new_name, new_metadata) ==
    /\ last' = "modify_collection"
    /\ args' = <<name, new_name, new_metadata>>
    /\ UNCHANGED classified
    /\ \E o \in Outcomes :
        /\ ClientOrRaise(o)
        /\ IF Failed(o) THEN Unavailable
           ELSE IF ~HasColl(colls, name) THEN NotFound
           ELSE LET metaCall == IF new_metadata # None
                                THEN << <<"modify_metadata", name, new_metadata>> >>
                                ELSE <<>>
                    nameCall == IF new_name # None
                                THEN << <<"modify_name", name, new_name>> >>
                                ELSE <<>>
                    col == IF new_metadata # None
                           THEN [colls[name] EXCEPT !.metadata = Stored(new_metadata)]
                           ELSE colls[name]
                    afterMeta == WithColl(colls, name, col)
                IN  /\ calls' = metaCall \o nameCall
                    /\ IF new_name = None THEN colls' = afterMeta /\ Return(None)
                       ELSE IF new_name # name /\ HasColl(colls, new_name)
                       THEN colls' = afterMeta /\ Raise("UniqueConstraintError")
                       ELSE /\ colls' = WithColl(WithoutColl(afterMeta, name), new_name, col)
                            /\ Return(None)

DeleteCollection(name) ==
    /\ last' = "delete_collection"
    /\ args' = <<name>>
    /\ UNCHANGED classified
    /\ \E o \in Outcomes :
        /\ ClientOrRaise(o)
        /\ IF Failed(o) THEN Unavailable
           ELSE /\ calls' = << <<"delete_collection", name,
                                 IF HasColl(colls, name) THEN "deleted" ELSE "absent">> >>
                /\ IF ~HasColl(colls, name)
                   THEN Raise("CollectionNotFoundError") /\ colls' = colls
                   ELSE colls' = WithoutColl(colls, name) /\ Return(None)

\* A fork that does not drop the destination first: the engine's
\* create_collection refuses a name that is taken.
ForkCollectionNoDelete(name, new_name, metadata) ==
    /\ last' = "fork_collection"
    /\ args' = <<name, new_name, metadata>>
    /\ UNCHANGED classified
    /\ \E o \in Outcomes :
        /\ ClientOrRaise(o)
        /\ IF Failed(o) THEN Unavailable
           ELSE IF ~HasColl(colls, name) THEN NotFound
           ELSE IF HasColl(colls, new_name)
           THEN /\ calls' = << <<"create_collection", new_name>> >>
                /\ colls' = colls
                /\ Raise("UniqueConstraintError")
           ELSE /\ calls' = << <<"create_collection", new_name>> >>
                /\ colls' = WithColl(colls, new_name,
                                     [NewColl(metadata) EXCEPT !.docs = colls[name].docs])
                /\ Return(None)

\* fork_collection: read the source, drop the destination (an absent one is
\* ignored), create it anew, and add the source's documents if there are any.
ForkCollection(name, new_name, metadata) ==
    /\ last' = "fork_collection"
    /\ args' = <<name, new_name, metadata>>
    /\ UNCHANGED classified
    /\ \E o \in Outcomes :
        /\ ClientOrRaise(o)
        /\ IF Failed(o) THEN Unavailable
           ELSE IF ~HasColl(colls, name) THEN NotFound
           ELSE LET data == Bundle(colls[name], IdsOf(colls[name]))
                    meta == IF metadata = None THEN EmptyMeta ELSE metadata
                    ids == data.ids
                    documents == IF data.documents = <<>> THEN Repeat("", Len(ids))
                                 ELSE data.documents
                    metadatas == IF data.metadatas = <<>> THEN Repeat(EmptyMeta, Len(ids))
                                 ELSE data.metadatas
                    addCall == IF Len(ids) > 0
                               THEN << <<"add", new_name, ids, documents, metadatas>> >>
                               ELSE <<>>
                    new_col == [NewColl(meta) EXCEPT !.docs =
                                   IF Len(ids) > 0
                                   THEN Added(@, ids, documents, metadatas)
                                   ELSE @]
                IN  /\ calls' = << <<"delete_collection", new_name,
                                     IF HasColl(colls, new_name) THEN "deleted" ELSE "absent">>,
                                   <<"create_collection", new_name>> >> \o addCall
                    /\ colls' = WithColl(WithoutColl(colls, new_name), new_name, new_col)
                    /\ Return(None)

(***************************************************************************)
(* Specifications                                                          *)
(***************************************************************************)

Init ==
    /\ classified = [path |-> <<>>, collection |-> None, type |-> None]
    /\ client = None
    /\ opens = 0
    /\ dirExists = FALSE
    /\ fileExists = FALSE
    /\ colls = [n \in {} |-> None]
    /\ last = "get_context_store"
    /\ args = <<>>
    /\ ret = NoRet
    /\ raised = "none"
    /\ calls = <<>>

\* The store's life cycle: every operation of the facade, the collection
\* operations over all their inputs, the document operations on one document.
Next ==
    \/ GetContextStore
    \/ IsInitialized
    \/ EnsureCollections
    \/ \E limit \in Limits, offset \in Limits : ListCollections(limit, offset)
    \/ \E name \in InputNames, metadata \in CollMetaInputs : CreateCollection(name, metadata)
    \/ \E name \in InputNames : GetCollectionInfo(name)
    \/ \E name \in InputNames : GetCollectionCount(name)
    \/ \E name \in InputNames : Peek(name, 1)
    \/ \E name \in InputNames : DocumentExists(name, OneId)
    \/ \E name \in InputNames : AddDocuments(name, <<OneId>>, <<OneText>>, Absent)
    \/ \E name \in InputNames, metadatas \in Optional([1..1 -> DocMetaValues]) :
           UpdateDocuments(name, <<OneId>>, Some(<<OneText>>), metadatas)
    \/ \E name \in InputNames : QueryDocuments(name, 1)
    \/ \E name \in InputNames : GetDocuments(name, Absent)
    \/ \E name \in InputNames : DeleteDocuments(name, <<OneId>>)
    \/ \E name \in InputNames, new_name \in {None} \cup InputNames,
          new_metadata \in {None} \cup CollMetaValues :
           ModifyCollection(name, new_name, new_metadata)
    \/ \E name \in InputNames : DeleteCollection(name)
    \/ \E name \in InputNames, new_name \in InputNames, metadata \in CollMetaInputs :
           ForkCollection(name, new_name, metadata)

Spec == Init /\ [][Next]_vars

\* The documents of two collections: the document operations over all their
\* inputs, and the collection operations that create, copy and drop collections.
NextDocs ==
    \/ GetContextStore
    \/ \E name \in InputNames : CreateCollection(name, None)
    \/ \E name \in InputNames : GetCollectionCount(name)
    \/ \E name \in InputNames, limit \in {1, 5} : Peek(name, limit)
    \/ \E name \in InputNames, id \in DocIds : DocumentExists(name, id)
    \/ \E name \in InputNames, ids \in DistinctIdLists, metadatas \in MetaLists :
           \E documents \in [1..Len(ids) -> DocTexts] :
               AddDocuments(name, ids, documents, metadatas)
    \/ \E name \in InputNames, ids \in SingleIdLists :
           \E documents \in Optional([1..Len(ids) -> DocTexts]),
              metadatas \in Optional([1..Len(ids) -> DocMetaValues]) :
               /\ documents # Absent \/ metadatas # Absent
               /\ UpdateDocuments(name, ids, documents, metadatas)
    \/ \E name \in InputNames, n_results \in {1, 5} : QueryDocuments(name, n_results)
    \/ \E name \in InputNames, ids \in Optional(SingleIdLists) : GetDocuments(name, ids)
    \/ \E name \in InputNames, ids \in IdLists : DeleteDocuments(name, ids)
    \/ \E name \in InputNames : DeleteCollection(name)
    \/ \E name \in InputNames, new_name \in InputNames : ForkCollection(name, new_name, None)

SpecDocs == Init /\ [][NextDocs]_vars

NextClassify == \E p \in FilePaths : Classify(p)

SpecClassify == Init /\ [][NextClassify]_vars

(***************************************************************************)
(* Properties                                                              *)
(***************************************************************************)

Mapping(i) == COLLECTION_MAPPINGS[i]
MappingIndexes == 1..Len(COLLECTION_MAPPINGS)

\* p lies under directory dir: some proper prefix of its components is dir.
UnderDir(p, dir) == \E k \in 1..(Len(p) - 1) : PathStr(SubSeq(p, 1, k)) = dir
UnderMapping(p, m) == \E d \in 1..Len(m.directories) : UnderDir(p, m.directories[d])

\* C1: a path under one of a mapping's directories whose base name matches the
\* mapping's glob is classified with that mapping's collection name and type
\* tag; a path under no mapped directory is classified None for both.
C1_ClassifiedByDirectory ==
    classified.path # <<>> =>
        LET p == classified.path
        IN  /\ \A i \in MappingIndexes :
                (UnderMapping(p, Mapping(i)) /\ PathMatch(p, Mapping(i).file_pattern))
                    => /\ classified.collection = Mapping(i).name
                       /\ classified.type = Mapping(i).type
            /\ (\A i \in MappingIndexes : ~UnderMapping(p, Mapping(i)))
                    => /\ classified.collection = None
                       /\ classified.type = None

\* C2: a fork_collection(name, new_name) that reaches the engine with the source
\* present returns normally and leaves under new_name exactly the source's
\* documents (ids, text, metadata), whatever new_name held before; an empty
\* source leaves an empty destination.
C2_ForkCopiesSource ==
    [][(/\ last' = "fork_collection"
        /\ raised' # "EngineUnavailableError"
        /\ HasColl(colls, args'[1]))
       => /\ raised' = "none"
          /\ HasColl(colls', args'[2])
          /\ colls'[args'[2]].docs = colls[args'[1]].docs]_vars

\* A fork of two documents over a destination that existed.
C2_Witness ==
    /\ last = "fork_collection"
    /\ raised = "none"
    /\ args[1] # args[2]
    /\ calls[1] = <<"delete_collection", args[2], "deleted">>
    /\ Cardinality(DOMAIN colls[args[2]].docs) = 2
    /\ colls[args[2]].docs = colls[args[1]].docs

\* C3: an ensure_collections call that returns, returns exactly the required
\* names that were absent, leaves all four required collections present and
\* every collection that existed untouched; called again right after, it
\* returns the empty list and changes nothing.
C3_EnsureIdempotent ==
    [][(last' = "ensure_collections" /\ raised' = "none")
       => /\ Range(ret') = RequiredNames \ DOMAIN colls
          /\ Cardinality(Range(ret')) = Len(ret')
          /\ RequiredNames \subseteq DOMAIN colls'
          /\ \A n \in DOMAIN colls : HasColl(colls', n) /\ colls'[n] = colls[n]
          /\ (last = "ensure_collections" /\ raised = "none")
                => (ret' = <<>> /\ colls' = colls)]_vars

\* ensure_collections found nothing missing (only an earlier call can have
\* created the required collections the inputs never name).
C3_Witness ==
    /\ last = "ensure_collections"
    /\ raised = "none"
    /\ ret = <<>>
    /\ RequiredNames \subseteq DOMAIN colls

\* C4: the count delete_documents returns is the number of documents the call
\* removed from the collection.
C4_DeleteCountsRemoved ==
    [][(last' = "delete_documents" /\ raised' = "none")
       => ret' = Cardinality(DOMAIN colls[args'[1]].docs)
                 - Cardinality(DOMAIN colls'[args'[1]].docs)]_vars

\* C5: document_exists never raises and changes no collection; it returns true
\* exactly when the engine is reached and the collection exists and holds the id.
C5_DocumentExistsTotal ==
    [][last' = "document_exists"
       => /\ raised' = "none"
          /\ colls' = colls
          /\ ret' = (/\ client' = "open"
                     /\ HasColl(colls, args'[1])
                     /\ args'[2] \in DOMAIN colls[args'[1]].docs)]_vars

\* document_exists on a collection that does not exist answered false.
C5_Witness ==
    /\ last = "document_exists"
    /\ client = "open"
    /\ ~HasColl(colls, args[1])
    /\ raised = "none"
    /\ ret = FALSE

\* The operations that call _client_or_raise.
ClientOperation(op) == op \notin {"get_context_store", "is_initialized"}

\* C6: an operation that triggers client construction, when construction
\* fails, ends by raising the construction error.
C6_ConstructionFailureRaised ==
    [][(client = None /\ client' = None /\ ClientOperation(last'))
       => raised' = "EngineUnavailableError"]_vars

\* C6 as amended: an operation other than document_exists that triggers client
\* construction, when construction fails, ends by raising the construction
\* error; document_exists returns false instead; neither changes a collection.
C6_FailureRaisedOrFalse ==
    [][(client = None /\ client' = None /\ ClientOperation(last'))
       => /\ colls' = colls
          /\ IF last' = "document_exists"
             THEN raised' = "none" /\ ret' = FALSE
             ELSE raised' = "EngineUnavailableError"]_vars

\* A write operation ended on the construction error, with no handle kept.
C6_Witness ==
    /\ last = "add_documents"
    /\ raised = "EngineUnavailableError"
    /\ client = None
    /\ opens = 0

\* C7: whenever add_documents hands a batch to the engine, the metadatas the
\* engine receives are one empty mapping per id if none, an empty list or a list
\* of another length was given, and the given list otherwise; the engine never
\* refuses the batch for its lengths, and a normal return is len(ids).
C7_MetadataNormalized ==
    [][(last' = "add_documents" /\ calls' # <<>>)
       => LET ids == args'[2]
              metadatas == args'[4]
              received == calls'[1][5]
          IN  /\ raised' # "DimensionMismatchError"
              /\ (metadatas = Absent \/ Len(metadatas[1]) # Len(ids))
                    => received = Repeat(EmptyMeta, Len(ids))
              /\ (metadatas # Absent /\ Len(metadatas[1]) = Len(ids))
                    => received = metadatas[1]
              /\ raised' = "none" => ret' = Len(ids)]_vars

\* add_documents returned len(ids) for a non-empty metadata list of another length.
C7_Witness ==
    /\ last = "add_documents"
    /\ raised = "none"
    /\ args[4] # Absent
    /\ Len(args[4][1]) > 0
    /\ Len(args[4][1]) # Len(args[2])
    /\ ret = Len(args[2])
    /\ calls[1][5] = Repeat(EmptyMeta, Len(args[2]))

\* C8: a store instance constructs at most one client; get_context_store and
\* is_initialized construct none and touch nothing on disk (is_initialized
\* answers whether the database file exists); any other operation run without
\* a handle either constructs it, after which the database file exists, or ends
\* on the construction failure; an operation run with a handle reuses it.
C8_LazyClientOnce ==
    [][/\ opens' <= 1
       /\ last' = "get_context_store"
            => /\ client' = None /\ opens' = 0
               /\ dirExists' = dirExists /\ fileExists' = fileExists /\ colls' = colls
       /\ last' = "is_initialized"
            => /\ client' = client /\ opens' = opens
               /\ dirExists' = dirExists /\ fileExists' = fileExists /\ colls' = colls
               /\ ret' = fileExists
       /\ (ClientOperation(last') /\ client = None)
            => \/ client' = "open" /\ opens' = opens + 1 /\ fileExists'
               \/ /\ client' = None /\ opens' = opens /\ fileExists' = fileExists
                  /\ colls' = colls
                  /\ raised' = "EngineUnavailableError" \/ last' = "document_exists"
       /\ (ClientOperation(last') /\ client = "open")
            => /\ client' = "open" /\ opens' = opens
               /\ raised' # "EngineUnavailableError"]_vars

\* is_initialized answered true on a store whose one client is open.
C8_Witness ==
    /\ last = "is_initialized"
    /\ ret = TRUE
    /\ client = "open"
    /\ opens = 1

\* The last operation issued a delete_collection that deleted collection n.
DeletedByLast(n) ==
    \E i \in 1..Len(calls') :
        /\ calls'[i][1] = "delete_collection"
        /\ calls'[i][2] = n
        /\ calls'[i][3] = "deleted"

ExplicitDelete(n) == last' = "delete_collection" /\ args'[1] = n
ExplicitRename(n) ==
    last' = "modify_collection" /\ args'[1] = n /\ args'[2] \notin {None, n}
ForkOver(n) == last' = "fork_collection" /\ args'[2] = n

\* C9: a collection that exists is deleted only by delete_collection naming it,
\* and stops being reachable under its name only by that or by a
\* modify_collection that renames it.
C9_OnlyExplicitDeletion ==
    [][\A n \in DOMAIN colls :
          /\ DeletedByLast(n) => ExplicitDelete(n)
          /\ ~HasColl(colls', n) => (ExplicitDelete(n) \/ ExplicitRename(n))]_vars

\* C9 as amended: a collection that exists is deleted only by delete_collection
\* naming it or by a fork_collection whose new_name names it (the destination
\* is deleted and created anew), and stops being reachable under its name only
\* by delete_collection or by a modify_collection that renames it.
C9_DeletionByDeleteOrFork ==
    [][\A n \in DOMAIN colls :
          /\ DeletedByLast(n) => (ExplicitDelete(n) \/ ForkOver(n))
          /\ ~HasColl(colls', n) => (ExplicitDelete(n) \/ ExplicitRename(n))]_vars

\* fork_collection deleted the collection that held the destination's name.
C9_Witness ==
    /\ last = "fork_collection"
    /\ raised = "none"
    /\ args[1] # args[2]
    /\ calls[1] = <<"delete_collection", args[2], "deleted">>

\* C10: modify_collection on a collection that exists issues the metadata
\* change (if given) and then the rename (if given), both on the handle of the
\* old name; after a rename that the engine accepts the collection is under
\* new_name with the new metadata and its documents, and nothing is under the
\* old name; on a collection that does not exist it fails with no change issued.
C10_MetadataBeforeRename ==
    [][(last' = "modify_collection" /\ raised' # "EngineUnavailableError")
       => LET name == args'[1]
              new_name == args'[2]
              new_metadata == args'[3]
          IN  IF ~HasColl(colls, name)
              THEN calls' = <<>> /\ colls' = colls /\ raised' = "CollectionNotFoundError"
              ELSE /\ Len(calls') = (IF new_metadata # None THEN 1 ELSE 0)
                                    + (IF new_name # None THEN 1 ELSE 0)
                   /\ new_metadata # None
                        => calls'[1] = <<"modify_metadata", name, new_metadata>>
                   /\ new_name # None
                        => calls'[Len(calls')] = <<"modify_name", name, new_name>>
                   /\ (raised' = "none" /\ new_name \notin {None, name})
                        => /\ ~HasColl(colls', name)
                           /\ HasColl(colls', new_name)
                           /\ colls'[new_name].docs = colls[name].docs
                           /\ colls'[new_name].metadata =
                                 (IF new_metadata # None THEN new_metadata
                                  ELSE colls[name].metadata)
                   /\ (raised' = "none" /\ new_name = None)
                        => /\ HasColl(colls', name)
                           /\ colls'[name].metadata =
                                 (IF new_metadata # None THEN new_metadata
                                  ELSE colls[name].metadata)]_vars

\* A modify with both arguments moved the collection and set its metadata.
C10_Witness ==
    /\ last = "modify_collection"
    /\ raised = "none"
    /\ Len(calls) = 2
    /\ args[2] # args[1]
    /\ ~HasColl(colls, args[1])
    /\ HasColl(colls, args[2])
    /\ colls[args[2]].metadata = args[3]

====
